---- MODULE Spec2Model ----
(***************************************************************************)
(* A model of tokendo.filter.TokenFilter (src/tokendo/filter.py): the      *)
(* reservoir of token lengths, the frequency Counter, the resolved length  *)
(* bounds, the most-common vocabulary and the decision predicate, driven   *)
(* by fit / partial_fit / transform calls (Spec); its construction from    *)
(* arguments right or wrong (SpecConstruct); its reservoir fed token by    *)
(* token (SpecReservoir); and skembeddings.pipeline.EmbeddingPipeline      *)
(* (src/skembeddings/pipeline.py), the two-step pipeline that can be       *)
(* frozen (SpecPipeline).                                                  *)
(*                                                                         *)
(* Python values are encoded as follows.                                   *)
(*   - a token is a string; NoneToken stands for a token object that has   *)
(*     no len() (None, a number): Python does not enforce list[list[str]]. *)
(*   - a number is a rational [num, den] with den > 0; the kinds are       *)
(*     "int", "float", "None" and "nan" (numpy's not-a-number).            *)
(*   - an Optional is a record [some, val].                                *)
(*   - a Counter is the sequence of its [tok, n] items in insertion order. *)
(***************************************************************************)
EXTENDS Integers, Sequences, FiniteSets, TLC

\* ---------------------------------------------------------------- bounds
MaxDocs == 2          \* documents in one batch
MaxBatchTokens == 2   \* tokens in one batch, over all its documents
MaxSeen == 3          \* cap on seen_lengths: fitting calls stop being made there

\* --------------------------------------------------------------- encoding
NoneToken == "<None>"
Strings == {"a", "abc"}
Tokens == Strings \cup {NoneToken}

HasLen(token) == token # NoneToken

IntValue(n) == [kind |-> "int", num |-> n, den |-> 1]
FloatValue(n, d) == [kind |-> "float", num |-> n, den |-> d]
NoneValue == [kind |-> "None", num |-> 0, den |-> 1]
NanValue == [kind |-> "nan", num |-> 0, den |-> 1]
\* an argument that is no number and not None (a str, a list)
StrValue == [kind |-> "str", num |-> 0, den |-> 1]

\* Optional[int] (max_features) and Optional[set] (most_common)
NoneInt == [some |-> FALSE, val |-> 0]
NoneSet == [some |-> FALSE, val |-> {}]
Some(v) == [some |-> TRUE, val |-> v]

\* a <= b and a >= b on rationals with positive denominators; every
\* comparison with nan is False, as in IEEE 754
Leq(a, b) == a.kind # "nan" /\ b.kind # "nan" /\ a.num * b.den <= b.num * a.den
Geq(a, b) == a.kind # "nan" /\ b.kind # "nan" /\ a.num * b.den >= b.num * a.den

\* ------------------------------------------------------ the calls' inputs
RECURSIVE Flatten(_)
Flatten(X) ==
    IF X = <<>> THEN <<>> ELSE Head(X) \o Flatten(Tail(X))

\* the documents of at most n tokens
Docs(n) == UNION {[1..m -> Tokens] : m \in 0..n}

\* the batches of k documents that hold at most n tokens between them
RECURSIVE BatchesOf(_, _)
BatchesOf(k, n) ==
    IF k = 0 THEN {<<>>}
    ELSE UNION {{<<doc>> \o X : X \in BatchesOf(k - 1, n - Len(doc))} :
                doc \in Docs(n)}

Batches == UNION {BatchesOf(k, MaxBatchTokens) : k \in 0..MaxDocs}

\* what np.quantile does with an empty array depends on the numpy build:
\* it raises IndexError or it returns nan
NumpyEmpty == {"IndexError", "nan"}

\* the exceptions: len() of an object without one, a list assignment out
\* of range, np.quantile of an empty array
TypeError == "TypeError: object has no len()"
ListIndexError == "IndexError: list assignment index out of range"
NumpyIndexError == "IndexError: index -1 is out of bounds for axis 0 with size 0"
\* the exception of __init__ (the same message for either bound)
ValueError == "ValueError: Minimum length either has to be float or int."

\* the builds to tell apart in a call that computes quantiles iff quantiles
NumpyBuilds(quantiles) == IF quantiles THEN NumpyEmpty ELSE {"nan"}

\* ------------------------------------------------- the configurations tried
Config(neg, lo, hi, flo, fhi, feats, mem) ==
    [negative |-> neg, length_range |-> <<lo, hi>>,
     frequency_range |-> <<flo, fhi>>, max_features |-> feats,
     max_memory |-> mem]

DefaultMaxMemory == 5000

Zero == FloatValue(0, 1)
Half == FloatValue(1, 2)
One == FloatValue(1, 1)

Configs ==
    { Config({}, IntValue(0), NoneValue, Zero, One, NoneInt,
             DefaultMaxMemory),
      Config({"abc"}, IntValue(0), NoneValue, Zero, One, NoneInt, 1),
      Config({}, IntValue(2), IntValue(5), Zero, Half, NoneInt, 2),
      Config({}, Half, One, Zero, One, NoneInt, 2),
      Config({}, IntValue(0), Half, Zero, One, Some(1), 1),
      Config({}, IntValue(0), NoneValue, Half, One, Some(1), 2),
      Config({}, IntValue(0), NoneValue, Zero, One, Some(2), 2) }

VARIABLES
    negative, minl, maxl, frequency_range, max_features, max_memory,
    min_length_quantile, max_length_quantile,
    min_length, max_length, length_pool, seen_lengths, frequencies, most_common,
    op, arg, draws, raised, ret, out,
    frozen, step_attrs, invoked, p_op, p_arg, p_raised, p_ret

config == <<negative, minl, maxl, frequency_range, max_features, max_memory,
            min_length_quantile, max_length_quantile>>
learned == <<min_length, max_length, length_pool, seen_lengths, frequencies,
             most_common>>
call == <<op, arg, draws, raised, ret, out>>
\* the EmbeddingPipeline: its flag, its steps, what was invoked on them and
\* the last call made on it
pipeline == <<frozen, step_attrs, invoked, p_op, p_arg, p_raised, p_ret>>
vars == <<config, learned, call, pipeline>>

\* ------------------------------------------------------------ __init__
\* TokenFilter(...) with an upper length bound that is no number taken for None
TokenFilter_lenient(c) ==
    LET lo == c.length_range[1]
        hi == c.length_range[2]
        constructed == lo.kind \in {"int", "float"}
    IN  [negative |-> c.negative, minl |-> lo, maxl |-> hi,
         min_length_quantile |-> (lo.kind = "float"),
         min_length |-> IF lo.kind = "int" THEN lo ELSE IntValue(0),
         max_length_quantile |-> (constructed /\ hi.kind = "float"),
         max_length |-> IF constructed /\ hi.kind = "int" THEN hi
                        ELSE NoneValue,
         frequency_range |-> c.frequency_range,
         max_features |-> IF constructed THEN c.max_features ELSE NoneInt,
         max_memory |-> IF constructed THEN c.max_memory ELSE 0,
         raised |-> IF constructed THEN "" ELSE ValueError]

\* TokenFilter(...): the attributes __init__ leaves on the object and the
\* exception it raised ("" for none). The attributes a failed __init__ did
\* not get to assign read as their empty values; nothing can use them, for
\* the caller gets no object.
TokenFilter(c) ==
    LET lo == c.length_range[1]
        hi == c.length_range[2]
        min_ok == lo.kind \in {"int", "float"}
        max_ok == hi.kind \in {"int", "float", "None"}
        constructed == min_ok /\ max_ok
    IN  [negative |-> c.negative, minl |-> lo, maxl |-> hi,
         min_length_quantile |-> (lo.kind = "float"),
         min_length |-> IF lo.kind = "int" THEN lo ELSE IntValue(0),
         max_length_quantile |-> (min_ok /\ hi.kind = "float"),
         max_length |-> IF min_ok /\ hi.kind = "int" THEN hi ELSE NoneValue,
         frequency_range |-> c.frequency_range,
         max_features |-> IF constructed THEN c.max_features ELSE NoneInt,
         max_memory |-> IF constructed THEN c.max_memory ELSE 0,
         raised |-> IF constructed THEN "" ELSE ValueError]

\* the state a call TokenFilter(...) with the arguments c leaves
New(c) ==
    LET self == TokenFilter(c)
    IN  /\ negative = self.negative
        /\ minl = self.minl
        /\ maxl = self.maxl
        /\ min_length_quantile = self.min_length_quantile
        /\ min_length = self.min_length
        /\ max_length_quantile = self.max_length_quantile
        /\ max_length = self.max_length
        /\ frequency_range = self.frequency_range
        /\ max_features = self.max_features
        /\ max_memory = self.max_memory
        /\ length_pool = <<>>
        /\ seen_lengths = 0
        /\ frequencies = <<>>
        /\ most_common = NoneSet
        /\ op = "__init__"
        /\ arg = <<>>
        /\ draws = <<>>
        /\ raised = self.raised
        /\ ret = IF self.raised = "" THEN "None" ELSE "raise"
        /\ out = <<>>

\* no pipeline is around the filter
NoPipeline ==
    /\ frozen = FALSE
    /\ step_attrs = <<>>
    /\ invoked = <<>>
    /\ p_op = ""
    /\ p_arg = <<>>
    /\ p_raised = ""
    /\ p_ret = ""

\* a filter that was constructed with one of the configurations
Init == NoPipeline /\ \E c \in Configs : New(c)

\* ------------------------------------------------------ append_reservoir
\* append_reservoir with the capacity test off by one (<= for <)
append_reservoir_off_by_one(pool, seen, token, j) ==
    IF seen <= max_memory
    THEN IF HasLen(token)
         THEN [length_pool |-> Append(pool, Len(token)),
               seen_lengths |-> seen + 1, raised |-> ""]
         ELSE [length_pool |-> pool, seen_lengths |-> seen,
               raised |-> TypeError]
    ELSE IF j < max_memory /\ HasLen(token)
         THEN [length_pool |-> [pool EXCEPT ![j + 1] = Len(token)],
               seen_lengths |-> seen + 1, raised |-> ""]
         ELSE [length_pool |-> pool, seen_lengths |-> seen + 1, raised |-> ""]

\* append_reservoir that counts the token only when it stores its length
append_reservoir_counts_stored(pool, seen, token, j) ==
    IF seen < max_memory
    THEN IF HasLen(token)
         THEN [length_pool |-> Append(pool, Len(token)),
               seen_lengths |-> seen + 1, raised |-> ""]
         ELSE [length_pool |-> pool, seen_lengths |-> seen,
               raised |-> TypeError]
    ELSE IF j < max_memory /\ HasLen(token) /\ j + 1 <= Len(pool)
         THEN [length_pool |-> [pool EXCEPT ![j + 1] = Len(token)],
               seen_lengths |-> seen + 1, raised |-> ""]
         ELSE [length_pool |-> pool, seen_lengths |-> seen, raised |-> ""]

\* One call of append_reservoir on a pool and a seen count; j is the value
\* random.randint(0, seen) returns, read only when the call draws one.
append_reservoir(pool, seen, token, j) ==
    IF seen < max_memory
    THEN IF HasLen(token)
         THEN [length_pool |-> Append(pool, Len(token)),
               seen_lengths |-> seen + 1, raised |-> ""]
         ELSE [length_pool |-> pool, seen_lengths |-> seen,
               raised |-> TypeError]
    ELSE IF j < max_memory
         THEN IF ~HasLen(token)
              THEN [length_pool |-> pool, seen_lengths |-> seen,
                    raised |-> TypeError]
              ELSE IF j + 1 > Len(pool)
              THEN [length_pool |-> pool, seen_lengths |-> seen,
                    raised |-> ListIndexError]
              ELSE [length_pool |-> [pool EXCEPT ![j + 1] = Len(token)],
                    seen_lengths |-> seen + 1, raised |-> ""]
         ELSE [length_pool |-> pool, seen_lengths |-> seen + 1, raised |-> ""]

\* draw_seqs with the draws taken from 0..seen - 1
RECURSIVE draw_seqs_exclusive(_, _, _)
draw_seqs_exclusive(pool, seen, toks) ==
    IF toks = <<>> THEN {<<>>}
    ELSE IF seen < max_memory
    THEN LET r == append_reservoir(pool, seen, Head(toks), 0)
         IN  IF r.raised # "" THEN {<<>>}
             ELSE draw_seqs_exclusive(r.length_pool, r.seen_lengths,
                                      Tail(toks))
    ELSE UNION {
            LET r == append_reservoir(pool, seen, Head(toks), j)
            IN  IF r.raised # "" THEN {<<j>>}
                ELSE {<<j>> \o d :
                        d \in draw_seqs_exclusive(r.length_pool,
                                                  r.seen_lengths,
                                                  Tail(toks))} :
            j \in 0..(seen - 1) }

\* The sequences of values random.randint(0, seen) can return, call after
\* call, while the tokens toks are fed to append_reservoir
RECURSIVE draw_seqs(_, _, _)
draw_seqs(pool, seen, toks) ==
    IF toks = <<>> THEN {<<>>}
    ELSE IF seen < max_memory
    THEN LET r == append_reservoir(pool, seen, Head(toks), 0)
         IN  IF r.raised # "" THEN {<<>>}
             ELSE draw_seqs(r.length_pool, r.seen_lengths, Tail(toks))
    ELSE UNION {
            LET r == append_reservoir(pool, seen, Head(toks), j)
            IN  IF r.raised # "" THEN {<<j>>}
                ELSE {<<j>> \o d :
                        d \in draw_seqs(r.length_pool, r.seen_lengths,
                                        Tail(toks))} :
            j \in 0..seen }

\* The loop of partial_fit over the tokens of the batch, in order. d holds
\* the draws still to be consumed; ok is FALSE when d is not a sequence of
\* draws this run can make (too few, or one outside 0..seen).
RECURSIVE fit_loop(_, _, _, _, _)
fit_loop(pool, seen, toks, d, tokens) ==
    IF toks = <<>>
    THEN [length_pool |-> pool, seen_lengths |-> seen, tokens |-> tokens,
          raised |-> "", rest |-> d, ok |-> TRUE]
    ELSE LET drawing == ~(seen < max_memory)
             j == IF drawing /\ d # <<>> THEN Head(d) ELSE 0
             r == append_reservoir(pool, seen, Head(toks), j)
             d2 == IF drawing /\ d # <<>> THEN Tail(d) ELSE d
         IN  IF drawing /\ (d = <<>> \/ j > seen)
             THEN [length_pool |-> pool, seen_lengths |-> seen,
                   tokens |-> tokens, raised |-> "", rest |-> d, ok |-> FALSE]
             ELSE IF r.raised # ""
             THEN [length_pool |-> r.length_pool,
                   seen_lengths |-> r.seen_lengths,
                   tokens |-> Append(tokens, Head(toks)),
                   raised |-> r.raised, rest |-> d2, ok |-> TRUE]
             ELSE fit_loop(r.length_pool, r.seen_lengths, Tail(toks), d2,
                           Append(tokens, Head(toks)))

\* ---------------------------------------------------------- np.quantile
\* sorted(pool), by insertion
RECURSIVE InsertSorted(_, _)
InsertSorted(s, x) ==
    IF s = <<>> THEN <<x>>
    ELSE IF x < Head(s) THEN <<x>> \o s
    ELSE <<Head(s)>> \o InsertSorted(Tail(s), x)

RECURSIVE sorted(_)
sorted(s) ==
    IF s = <<>> THEN <<>>
    ELSE InsertSorted(sorted(SubSeq(s, 1, Len(s) - 1)), s[Len(s)])

\* np.quantile that takes the entry below the position (method="lower")
quantile_lower(pool, q) ==
    LET a == sorted(pool)
        lo == (q.num * (Len(a) - 1)) \div q.den
    IN  FloatValue(a[lo + 1] * q.den, q.den)

\* np.quantile(pool, q) for a non-empty pool, method "linear": the virtual
\* index is q * (n - 1), and the result interpolates between the order
\* statistics on either side of it.
quantile(pool, q) ==
    LET a == sorted(pool)
        n == Len(a)
        v == q.num * (n - 1)
        lo == v \div q.den
        gamma == v % q.den
        hi == IF lo + 1 > n - 1 THEN n - 1 ELSE lo + 1
    IN  FloatValue(a[lo + 1] * q.den + gamma * (a[hi + 1] - a[lo + 1]), q.den)

\* ------------------------------------------------- collections.Counter
count(freqs, token) ==
    IF \E i \in 1..Len(freqs) : freqs[i].tok = token
    THEN LET i == CHOOSE i \in 1..Len(freqs) : freqs[i].tok = token
         IN  freqs[i].n
    ELSE 0

RECURSIVE total(_)
total(freqs) ==
    IF freqs = <<>> THEN 0 ELSE Head(freqs).n + total(Tail(freqs))

\* increment that stores 1 instead of adding 1
increment_overwrites(freqs, token) ==
    IF \E i \in 1..Len(freqs) : freqs[i].tok = token
    THEN [i \in 1..Len(freqs) |->
            IF freqs[i].tok = token THEN [tok |-> token, n |-> 1]
            ELSE freqs[i]]
    ELSE Append(freqs, [tok |-> token, n |-> 1])

\* self[elem] = self.get(elem, 0) + 1: a new key goes to the end
increment(freqs, token) ==
    IF \E i \in 1..Len(freqs) : freqs[i].tok = token
    THEN [i \in 1..Len(freqs) |->
            IF freqs[i].tok = token
            THEN [tok |-> token, n |-> freqs[i].n + 1]
            ELSE freqs[i]]
    ELSE Append(freqs, [tok |-> token, n |-> 1])

\* update that counts a token once a batch, however often it occurs
RECURSIVE update_distinct(_, _)
update_distinct(freqs, tokens) ==
    IF tokens = <<>> THEN freqs
    ELSE IF \E i \in 2..Len(tokens) : tokens[i] = Head(tokens)
    THEN update_distinct(freqs, Tail(tokens))
    ELSE update_distinct(increment(freqs, Head(tokens)), Tail(tokens))

\* Counter.update(tokens): one increment a token, in order
RECURSIVE update(_, _)
update(freqs, tokens) ==
    IF tokens = <<>> THEN freqs
    ELSE update(increment(freqs, Head(tokens)), Tail(tokens))

\* a sort that puts an item before the items of equal count (>= for >)
RECURSIVE InsertByCount_unstable(_, _)
InsertByCount_unstable(s, e) ==
    IF s = <<>> THEN <<e>>
    ELSE IF e.n >= Head(s).n THEN <<e>> \o s
    ELSE <<Head(s)>> \o InsertByCount_unstable(Tail(s), e)

\* sorted(items, key=count, reverse=True): stable, so equal counts keep
\* their insertion order
RECURSIVE InsertByCount(_, _)
InsertByCount(s, e) ==
    IF s = <<>> THEN <<e>>
    ELSE IF e.n > Head(s).n THEN <<e>> \o s
    ELSE <<Head(s)>> \o InsertByCount(Tail(s), e)

RECURSIVE SortByCount(_)
SortByCount(freqs) ==
    IF freqs = <<>> THEN <<>>
    ELSE InsertByCount(SortByCount(SubSeq(freqs, 1, Len(freqs) - 1)),
                       freqs[Len(freqs)])

\* Counter.most_common(k), as the list of its tokens
most_common_tokens(freqs, k) ==
    LET s == SortByCount(freqs)
        m == IF k < Len(s) THEN k ELSE Len(s)
    IN  [i \in 1..m |-> s[i].tok]

Range(s) == {s[i] : i \in 1..Len(s)}

\* ------------------------------------------------------------ partial_fit
\* partial_fit that resolves the lower bound from the reservoir even when
\* it was given as an integer
partial_fit_resolves_lower(X, d, np) ==
    LET loop == fit_loop(length_pool, seen_lengths, Flatten(X), d, <<>>)
        pool == loop.length_pool
        fails == pool = <<>> /\ np = "IndexError"
        base == [length_pool |-> pool, seen_lengths |-> loop.seen_lengths,
                 min_length |-> min_length, max_length |-> max_length,
                 frequencies |-> frequencies, most_common |-> most_common,
                 raised |-> loop.raised, ret |-> "raise",
                 ok |-> loop.ok /\ loop.rest = <<>>]
        maxq == IF ~max_length_quantile THEN max_length
                ELSE IF pool = <<>> THEN NanValue ELSE quantile(pool, maxl)
        minq == IF pool = <<>> THEN min_length
                ELSE quantile(pool, IF min_length_quantile THEN minl ELSE Zero)
        freqs == update(frequencies, loop.tokens)
        common == IF max_features.some
                  THEN Some(Range(most_common_tokens(freqs, max_features.val)))
                  ELSE most_common
    IN  IF ~base.ok \/ loop.raised # "" THEN base
        ELSE IF max_length_quantile /\ fails
        THEN [base EXCEPT !.raised = NumpyIndexError]
        ELSE IF min_length_quantile /\ fails
        THEN [base EXCEPT !.raised = NumpyIndexError, !.max_length = maxq]
        ELSE [base EXCEPT !.max_length = maxq, !.min_length = minq,
                          !.frequencies = freqs, !.most_common = common,
                          !.ret = "self"]

\* partial_fit(X) run from the current state with the draws d and the numpy
\* build np: the fields it leaves behind, the exception it raised ("" for
\* none) and what it returned. ok is FALSE when d is not what this run draws.
partial_fit(X, d, np) ==
    LET loop == fit_loop(length_pool, seen_lengths, Flatten(X), d, <<>>)
        pool == loop.length_pool
        fails == pool = <<>> /\ np = "IndexError"
        base == [length_pool |-> pool, seen_lengths |-> loop.seen_lengths,
                 min_length |-> min_length, max_length |-> max_length,
                 frequencies |-> frequencies, most_common |-> most_common,
                 raised |-> loop.raised, ret |-> "raise",
                 ok |-> loop.ok /\ loop.rest = <<>>]
        maxq == IF ~max_length_quantile THEN max_length
                ELSE IF pool = <<>> THEN NanValue ELSE quantile(pool, maxl)
        minq == IF ~min_length_quantile THEN min_length
                ELSE IF pool = <<>> THEN NanValue ELSE quantile(pool, minl)
        freqs == update(frequencies, loop.tokens)
        common == IF max_features.some
                  THEN Some(Range(most_common_tokens(freqs, max_features.val)))
                  ELSE most_common
    IN  IF ~base.ok \/ loop.raised # "" THEN base
        ELSE IF max_length_quantile /\ fails
        THEN [base EXCEPT !.raised = NumpyIndexError]
        ELSE IF min_length_quantile /\ fails
        THEN [base EXCEPT !.raised = NumpyIndexError, !.max_length = maxq]
        ELSE [base EXCEPT !.max_length = maxq, !.min_length = minq,
                          !.frequencies = freqs, !.most_common = common,
                          !.ret = "self"]

\* a fit that starts the frequency table afresh
fit_resets(X, d, np) ==
    LET r == partial_fit(X, d, np)
    IN  IF r.ret = "self"
        THEN [r EXCEPT !.frequencies = update(<<>>, Flatten(X))]
        ELSE r

\* fit(X): return self.partial_fit(X, y)
fit(X, d, np) == partial_fit(X, d, np)

\* ----------------------------------------------------------------- passes
\* the locals of passes, for a token that has a length
token_frequency(token) ==
    LET total_freq == total(frequencies)
    IN  IF total_freq # 0
        THEN FloatValue(count(frequencies, token), total_freq)
        ELSE IntValue(0)
max_pass(token) ==
    max_length.kind = "None" \/ Leq(IntValue(Len(token)), max_length)
min_pass(token) == Geq(IntValue(Len(token)), min_length)
freq_pass(token) ==
    /\ Geq(token_frequency(token), frequency_range[1])
    /\ Leq(token_frequency(token), frequency_range[2])
is_in_most_common(token) == ~most_common.some \/ token \in most_common.val

\* passes with a strict upper length bound (< for <=)
passes_strict_max(token) ==
    /\ token \notin negative
    /\ (max_length.kind = "None"
        \/ (Leq(IntValue(Len(token)), max_length)
            /\ ~Geq(IntValue(Len(token)), max_length)))
    /\ min_pass(token)
    /\ freq_pass(token)
    /\ is_in_most_common(token)

\* passes without the deny-list test
passes_no_negative(token) ==
    /\ max_pass(token)
    /\ min_pass(token)
    /\ freq_pass(token)
    /\ is_in_most_common(token)

\* passes with a strict lower frequency bound (> for >=)
passes_strict_frequency(token) ==
    /\ token \notin negative
    /\ max_pass(token)
    /\ min_pass(token)
    /\ ~Leq(token_frequency(token), frequency_range[1])
    /\ Leq(token_frequency(token), frequency_range[2])
    /\ is_in_most_common(token)

\* passes(token) for a token that has a length
passes(token) ==
    /\ token \notin negative
    /\ max_pass(token)
    /\ min_pass(token)
    /\ freq_pass(token)
    /\ is_in_most_common(token)

\* -------------------------------------------------------------- transform
\* res_tokens that builds the list back to front
RECURSIVE res_tokens_reversed(_)
res_tokens_reversed(doc) ==
    IF doc = <<>> THEN <<>>
    ELSE IF passes(Head(doc))
    THEN res_tokens_reversed(Tail(doc)) \o <<Head(doc)>>
    ELSE res_tokens_reversed(Tail(doc))

\* [token for token in doc if self.passes(token)]
RECURSIVE res_tokens(_)
res_tokens(doc) ==
    IF doc = <<>> THEN <<>>
    ELSE IF passes(Head(doc)) THEN <<Head(doc)>> \o res_tokens(Tail(doc))
    ELSE res_tokens(Tail(doc))

RECURSIVE res_docs(_)
res_docs(X) ==
    IF X = <<>> THEN <<>> ELSE <<res_tokens(Head(X))>> \o res_docs(Tail(X))

\* transform(X) in the current state: len(token) raises on the first token
\* that has no length, and nothing is returned then
transform(X) ==
    IF \E i \in 1..Len(Flatten(X)) : ~HasLen(Flatten(X)[i])
    THEN [raised |-> TypeError, ret |-> "raise", res |-> <<>>]
    ELSE [raised |-> "", ret |-> "list", res |-> res_docs(X)]

\* ------------------------------------------------------------- the calls
\* The filter is driven by one caller, one call at a time: op names the call
\* that has just returned (or raised), with its argument, draws and result,
\* and is "idle" once the caller has taken the result.
Callable == op \in {"__init__", "idle"} /\ raised = ""

Commit(r) ==
    /\ length_pool' = r.length_pool
    /\ seen_lengths' = r.seen_lengths
    /\ min_length' = r.min_length
    /\ max_length' = r.max_length
    /\ frequencies' = r.frequencies
    /\ most_common' = r.most_common
    /\ raised' = r.raised
    /\ ret' = r.ret

Fit(X) ==
    /\ seen_lengths + Len(Flatten(X)) <= MaxSeen
    /\ \E d \in draw_seqs(length_pool, seen_lengths, Flatten(X)),
          np \in NumpyBuilds(min_length_quantile \/ max_length_quantile) :
        LET r == fit(X, d, np)
        IN  /\ r.ok
            /\ Commit(r)
            /\ draws' = d
    /\ op' = "fit"
    /\ arg' = X
    /\ out' = <<>>
    /\ UNCHANGED <<config, pipeline>>

PartialFit(X) ==
    /\ seen_lengths + Len(Flatten(X)) <= MaxSeen
    /\ \E d \in draw_seqs(length_pool, seen_lengths, Flatten(X)),
          np \in NumpyBuilds(min_length_quantile \/ max_length_quantile) :
        LET r == partial_fit(X, d, np)
        IN  /\ r.ok
            /\ Commit(r)
            /\ draws' = d
    /\ op' = "partial_fit"
    /\ arg' = X
    /\ out' = <<>>
    /\ UNCHANGED <<config, pipeline>>

\* a transform that also counts the tokens it is given
Transform_counting(X) ==
    /\ op' = "transform"
    /\ arg' = X
    /\ draws' = <<>>
    /\ raised' = transform(X).raised
    /\ ret' = transform(X).ret
    /\ out' = transform(X).res
    /\ frequencies' = update(frequencies, Flatten(X))
    /\ UNCHANGED <<config, min_length, max_length, length_pool, seen_lengths,
                   most_common, pipeline>>

Transform(X) ==
    LET r == transform(X)
    IN  /\ op' = "transform"
        /\ arg' = X
        /\ draws' = <<>>
        /\ raised' = r.raised
        /\ ret' = r.ret
        /\ out' = r.res
        /\ UNCHANGED <<config, learned, pipeline>>

\* the caller takes the result of the call: the filter's fields stay
Resume ==
    /\ op \in {"fit", "partial_fit", "transform"}
    /\ op' = "idle"
    /\ arg' = <<>>
    /\ draws' = <<>>
    /\ raised' = ""
    /\ ret' = "None"
    /\ out' = <<>>
    /\ UNCHANGED <<config, learned, pipeline>>

\* the batches the caller can pass now
Arguments == IF Callable THEN Batches ELSE {}

CallFit == \E X \in Arguments : Fit(X)
CallPartialFit == \E X \in Arguments : PartialFit(X)
CallTransform == \E X \in Arguments : Transform(X)

Next ==
    \/ CallFit
    \/ CallPartialFit
    \/ CallTransform
    \/ Resume

Spec == Init /\ [][Next]_vars

\* ------------------------------------------- construction, right or wrong
\* The arguments a caller can hand to TokenFilter(...): length ranges of
\* every mix of types, bounds that are no numbers, and a frequency range
\* whose lower bound lies above the upper one.
Constructions ==
    { Config({}, IntValue(0), NoneValue, Zero, One, NoneInt, 2),
      Config({}, IntValue(2), IntValue(5), Zero, One, NoneInt, 2),
      Config({}, Half, One, Zero, One, NoneInt, 2),
      Config({}, IntValue(1), Half, Zero, One, NoneInt, 1),
      Config({}, Half, NoneValue, Zero, One, NoneInt, 1),
      Config({}, Zero, One, Zero, One, NoneInt, 2),
      Config({}, StrValue, NoneValue, Zero, One, NoneInt, 2),
      Config({}, NoneValue, NoneValue, Zero, One, NoneInt, 2),
      Config({}, IntValue(0), StrValue, Zero, One, NoneInt, 2),
      Config({}, Half, StrValue, Zero, One, NoneInt, 2),
      Config({}, StrValue, StrValue, Zero, One, NoneInt, 2),
      Config({}, IntValue(0), NoneValue, One, Half, NoneInt, 2) }

InitConstruct == NoPipeline /\ \E c \in Constructions : New(c)

SpecConstruct == InitConstruct /\ [][Next]_vars

\* ------------------------------------------- the reservoir, token by token
\* Filters of small capacity are fed one token a call, so that the seen
\* count passes the capacity by as much as MaxSeen allows.
Capacities ==
    { Config({}, IntValue(0), NoneValue, Zero, One, NoneInt, 1),
      Config({}, IntValue(0), NoneValue, Zero, One, NoneInt, 2),
      Config({}, IntValue(0), NoneValue, Zero, One, NoneInt, 3) }

InitReservoir == NoPipeline /\ \E c \in Capacities : New(c)

FeedToken == \E token \in Strings : Callable /\ PartialFit(<<<<token>>>>)

NextReservoir ==
    \/ FeedToken
    \/ Resume

SpecReservoir == InitReservoir /\ [][NextReservoir]_vars

\* ============================================================ the pipeline
\* skembeddings.pipeline.EmbeddingPipeline (src/skembeddings/pipeline.py): a
\* sklearn Pipeline of two steps that can be frozen. A step is known by the
\* methods it has, apart from fit, which every estimator has; what is
\* invoked on the steps is logged in order. A piece of data is a raw input
\* and the transforms it went through, each with the number of fitting calls
\* its step had received by then.
StepNames == <<"tokenizer_model", "embedding_model">>
Methods == {"partial_fit", "predict", "transform"}
PipelineInputs == {"X1", "X2"}
MaxFits == 2    \* fitting calls that reach the steps of one pipeline

Data(raw) == [raw |-> raw, via |-> <<>>]
NoData == Data("")
Invocation(name, method, X, classes) ==
    [step |-> name, method |-> method, X |-> X, classes |-> classes]

PipelineValueError == "ValueError: Step does not have .partial_fit implemented."
PipelineTypeError == "TypeError: All intermediate steps should be transformers"

\* the fitting calls the step has received in the log
fitted(log, name) ==
    Cardinality({i \in 1..Len(log) :
        log[i].step = name /\ log[i].method \in {"fit", "partial_fit"}})

\* step.transform(X) for the step as the log has left it
step_transform(log, name, X) ==
    [X EXCEPT !.via = Append(@, [step |-> name, fitted |-> fitted(log, name)])]

\* EmbeddingPipeline.partial_fit that looks for partial_fit step by step,
\* while it fits
RECURSIVE partial_fit_steps_late(_, _, _)
partial_fit_steps_late(i, log, X) ==
    IF i > Len(StepNames)
    THEN [invoked |-> log, raised |-> "", ret |-> "self"]
    ELSE LET name == StepNames[i]
             log1 == Append(log, Invocation(name, "partial_fit", X,
                                 "predict" \in step_attrs[name]))
         IN  IF "partial_fit" \notin step_attrs[name]
             THEN [invoked |-> log, raised |-> PipelineValueError,
                   ret |-> "raise"]
             ELSE IF "transform" \in step_attrs[name]
             THEN partial_fit_steps_late(i + 1,
                    Append(log1, Invocation(name, "transform", X, FALSE)),
                    step_transform(log1, name, X))
             ELSE partial_fit_steps_late(i + 1, log1, X)
EmbeddingPipeline_partial_fit_late(X) ==
    IF frozen THEN [invoked |-> invoked, raised |-> "", ret |-> "self"]
    ELSE partial_fit_steps_late(1, invoked, X)

\* the second loop of partial_fit, from the i-th step on: partial_fit of
\* the step (with classes when it has predict), then X = step.transform(X)
\* when it has transform
RECURSIVE partial_fit_steps(_, _, _)
partial_fit_steps(i, log, X) ==
    IF i > Len(StepNames) THEN log
    ELSE LET name == StepNames[i]
             log1 == Append(log, Invocation(name, "partial_fit", X,
                                 "predict" \in step_attrs[name]))
         IN  IF "transform" \in step_attrs[name]
             THEN partial_fit_steps(i + 1,
                    Append(log1, Invocation(name, "transform", X, FALSE)),
                    step_transform(log1, name, X))
             ELSE partial_fit_steps(i + 1, log1, X)

\* EmbeddingPipeline.partial_fit(X): the log it leaves, what it raised and
\* what it returned
EmbeddingPipeline_partial_fit(X) ==
    IF frozen THEN [invoked |-> invoked, raised |-> "", ret |-> "self"]
    ELSE IF \E i \in 1..Len(StepNames) :
                "partial_fit" \notin step_attrs[StepNames[i]]
    THEN [invoked |-> invoked, raised |-> PipelineValueError, ret |-> "raise"]
    ELSE [invoked |-> partial_fit_steps(1, invoked, X), raised |-> "",
          ret |-> "self"]

\* sklearn's Pipeline.fit from the i-th step on: fit and transform for a
\* step before the last, fit for the last
RECURSIVE fit_steps(_, _, _)
fit_steps(i, log, X) ==
    LET name == StepNames[i]
        log1 == Append(log, Invocation(name, "fit", X, FALSE))
    IN  IF i = Len(StepNames) THEN log1
        ELSE fit_steps(i + 1,
                Append(log1, Invocation(name, "transform", X, FALSE)),
                step_transform(log1, name, X))

\* EmbeddingPipeline.fit(X): self when frozen; else super().fit(X), which
\* refuses a step before the last that cannot transform, and no return
EmbeddingPipeline_fit(X) ==
    IF frozen THEN [invoked |-> invoked, raised |-> "", ret |-> "self"]
    ELSE IF \E i \in 1..(Len(StepNames) - 1) :
                "transform" \notin step_attrs[StepNames[i]]
    THEN [invoked |-> invoked, raised |-> PipelineTypeError, ret |-> "raise"]
    ELSE [invoked |-> fit_steps(1, invoked, X), raised |-> "", ret |-> "None"]

\* EmbeddingPipeline(tokenizer, model, frozen) next to a filter left as
\* constructed
InitPipeline ==
    /\ New(Config({}, IntValue(0), NoneValue, Zero, One, NoneInt,
                  DefaultMaxMemory))
    /\ frozen \in BOOLEAN
    /\ step_attrs \in [{StepNames[i] : i \in 1..Len(StepNames)}
                            -> SUBSET Methods]
    /\ invoked = <<>>
    /\ p_op = "__init__"
    /\ p_arg = NoData
    /\ p_raised = ""
    /\ p_ret = "None"

Freeze ==
    /\ frozen' = TRUE
    /\ p_op' = "freeze"
    /\ p_arg' = NoData
    /\ p_raised' = ""
    /\ p_ret' = "self"
    /\ UNCHANGED <<step_attrs, invoked, config, learned, call>>

Unfreeze ==
    /\ frozen' = FALSE
    /\ p_op' = "unfreeze"
    /\ p_arg' = NoData
    /\ p_raised' = ""
    /\ p_ret' = "self"
    /\ UNCHANGED <<step_attrs, invoked, config, learned, call>>

\* the fitting calls are made while they are skipped or the steps were
\* fitted fewer than MaxFits times
Room == frozen \/ fitted(invoked, StepNames[1]) < MaxFits

PipelineFit ==
    \E raw \in PipelineInputs :
        LET r == EmbeddingPipeline_fit(Data(raw))
        IN  /\ Room
            /\ invoked' = r.invoked
            /\ p_op' = "fit"
            /\ p_arg' = Data(raw)
            /\ p_raised' = r.raised
            /\ p_ret' = r.ret
            /\ UNCHANGED <<frozen, step_attrs, config, learned, call>>

PipelinePartialFit ==
    \E raw \in PipelineInputs :
        LET r == EmbeddingPipeline_partial_fit(Data(raw))
        IN  /\ Room
            /\ invoked' = r.invoked
            /\ p_op' = "partial_fit"
            /\ p_arg' = Data(raw)
            /\ p_raised' = r.raised
            /\ p_ret' = r.ret
            /\ UNCHANGED <<frozen, step_attrs, config, learned, call>>

\* from_hub: the pipeline is now the one from_disk builds, frozen; its
\* steps are what the downloaded configuration names
FromHub ==
    /\ step_attrs' \in [{StepNames[i] : i \in 1..Len(StepNames)}
                            -> SUBSET Methods]
    /\ invoked' = <<>>
    /\ frozen' = TRUE
    /\ p_op' = "from_hub"
    /\ p_arg' = NoData
    /\ p_raised' = ""
    /\ p_ret' = "self"
    /\ UNCHANGED <<config, learned, call>>

NextPipeline ==
    \/ Freeze
    \/ Unfreeze
    \/ PipelineFit
    \/ PipelinePartialFit
    \/ FromHub

SpecPipeline == InitPipeline /\ [][NextPipeline]_vars

\* =================================================================== claims
Min(a, b) == IF a < b THEN a ELSE b
Fitting == {"fit", "partial_fit"}
Tokenized(X) == \A i \in 1..Len(Flatten(X)) : HasLen(Flatten(X)[i])

\* the number of occurrences of the token in a sequence of tokens
RECURSIVE Occurrences(_, _)
Occurrences(toks, token) ==
    IF toks = <<>> THEN 0
    ELSE (IF Head(toks) = token THEN 1 ELSE 0) + Occurrences(Tail(toks), token)

\* the counts of the frequency table, read item by item
CountOf(token) ==
    LET I == {i \in 1..Len(frequencies) : frequencies[i].tok = token}
    IN  IF I = {} THEN 0 ELSE frequencies[CHOOSE i \in I : TRUE].n
RECURSIVE SumOver(_)
SumOver(I) ==
    IF I = {} THEN 0
    ELSE LET i == CHOOSE i \in I : TRUE
         IN  frequencies[i].n + SumOver(I \ {i})
TotalCount == SumOver(1..Len(frequencies))

\* ---- C1
\* C1: in every reachable state and for every token string t, passes(t) is
\* true iff t is not in the deny-list, max_length is unbounded or
\* len(t) <= max_length, len(t) >= min_length, the relative frequency of t
\* (count / total, 0 when the total is 0) lies between the frequency bounds,
\* and the most-common vocabulary is unset or contains t.
C1_NotDenied(t) == ~(t \in negative)
C1_MaxOk(t) ==
    \/ max_length.kind = "None"
    \/ (max_length.kind \in {"int", "float"}
        /\ Len(t) * max_length.den <= max_length.num)
C1_MinOk(t) ==
    /\ min_length.kind \in {"int", "float"}
    /\ Len(t) * min_length.den >= min_length.num
C1_FreqOk(t) ==
    LET lo == frequency_range[1]
        hi == frequency_range[2]
    IN  IF TotalCount = 0
        THEN lo.num <= 0 /\ 0 <= hi.num
        ELSE /\ CountOf(t) * lo.den >= lo.num * TotalCount
             /\ CountOf(t) * hi.den <= hi.num * TotalCount
C1_VocabularyOk(t) == most_common = NoneSet \/ t \in most_common.val
C1_PassesIffAllFive ==
    \A t \in Strings :
        passes(t) <=> /\ C1_NotDenied(t)
                      /\ C1_MaxOk(t)
                      /\ C1_MinOk(t)
                      /\ C1_FreqOk(t)
                      /\ C1_VocabularyOk(t)
\* a fitted filter with a learned upper bound that one token passes and
\* another one fails
C1_Witness ==
    /\ op \in Fitting
    /\ raised = ""
    /\ max_length.kind = "float"
    /\ \E t, u \in Strings : passes(t) /\ ~passes(u)

\* ---- C2
\* C2: whatever fitting calls came before, no document returned by transform
\* contains a token of the deny-list.
C2_DenyListRemoved ==
    (op = "transform" /\ ret = "list") =>
        \A i \in 1..Len(out) : \A k \in 1..Len(out[i]) :
            out[i][k] \notin negative
\* a fitted filter was given a denied token and returned a document
C2_Witness ==
    /\ op = "transform"
    /\ ret = "list"
    /\ seen_lengths > 0
    /\ \E i \in 1..Len(arg) : \E k \in 1..Len(arg[i]) : arg[i][k] \in negative
    /\ \E i \in 1..Len(out) : out[i] # <<>>

\* ---- C3
\* C3: a filter built with the default configuration whose learned state is
\* the state construction leaves (so in particular one never fit) returns
\* every batch of tokenized documents as it is.
DefaultConfiguration ==
    /\ negative = {}
    /\ minl = IntValue(0)
    /\ maxl = NoneValue
    /\ frequency_range = <<FloatValue(0, 1), FloatValue(1, 1)>>
    /\ max_features = NoneInt
    /\ max_memory = DefaultMaxMemory
AsConstructed ==
    /\ length_pool = <<>>
    /\ seen_lengths = 0
    /\ frequencies = <<>>
    /\ most_common = NoneSet
    /\ min_length = IntValue(0)
    /\ max_length = NoneValue
C3_DefaultIsIdentity ==
    (DefaultConfiguration /\ AsConstructed /\ op = "transform"
     /\ Tokenized(arg))
        => (ret = "list" /\ raised = "" /\ out = arg)
C3_Witness ==
    /\ DefaultConfiguration
    /\ AsConstructed
    /\ op = "transform"
    /\ Len(arg) = 2
    /\ Len(Flatten(arg)) = 2
    /\ out = arg

\* ---- C4
\* C4: a transform call leaves the reservoir, the seen count, the frequency
\* table, the resolved bounds, the most-common vocabulary and the
\* configuration unchanged.
C4_TransformFrame ==
    [][op' = "transform" => UNCHANGED <<config, learned>>]_vars
\* a transform of a non-empty batch on a fitted filter
C4_Witness ==
    /\ op = "transform"
    /\ seen_lengths > 0
    /\ frequencies # <<>>
    /\ Flatten(arg) # <<>>

\* ---- C5
\* C5: transform(X) has as many documents as X, and its i-th document is the
\* subsequence of the i-th document of X made of the occurrences that pass,
\* in their order.
C5_OutputIsFilteredInput ==
    (op = "transform" /\ ret = "list") =>
        /\ Len(out) = Len(arg)
        /\ \A i \in 1..Len(arg) : out[i] = SelectSeq(arg[i], passes)
\* a fitted filter is given two documents, and of the two tokens of one of
\* them the second alone survives
C5_Witness ==
    /\ op = "transform"
    /\ ret = "list"
    /\ seen_lengths > 0
    /\ Len(arg) = 2
    /\ Len(out) = 2
    /\ \E i \in 1..2 :
        /\ Len(arg[i]) = 2
        /\ out[i] = <<arg[i][2]>>
        /\ arg[i][1] # arg[i][2]

\* ---- C6
\* C6: the reservoir holds exactly min(seen_lengths, max_memory) lengths, so
\* never more than max_memory, and no overwrite index falls outside it.
C6_ReservoirCardinality ==
    /\ Len(length_pool) = Min(seen_lengths, max_memory)
    /\ Len(length_pool) <= max_memory
    /\ raised # ListIndexError
\* more tokens were seen than the reservoir holds and the last call
\* overwrote a slot
C6_Witness ==
    /\ op \in Fitting
    /\ raised = ""
    /\ seen_lengths > max_memory
    /\ \E i \in 1..Len(draws) : draws[i] < max_memory

\* ---- C7
\* the relative frequency of t is not lower after the step than before it
C7_NotLower(t) ==
    \/ TotalCount = 0
    \/ (TotalCount' > 0 /\ CountOf(t)' * TotalCount >= CountOf(t) * TotalCount')
\* C7 as claimed: the relative frequency of t after a partial_fit call whose
\* batch contains t is never lower than before the call.
C7_FrequencyNeverDecreases ==
    [][\A t \in Strings :
        (op' = "partial_fit" /\ Occurrences(Flatten(arg'), t) > 0)
            => C7_NotLower(t)]_vars
\* C7 as amended: a partial_fit call that returns adds to count(t) the
\* occurrences of t in its batch and to the total the tokens of its batch;
\* the relative frequency of a token t of the batch is not lower than before
\* whenever the share of t in the batch is at least its relative frequency
\* before the call.
C7_FrequencyAccumulates ==
    [][\A t \in Strings :
        LET k == Occurrences(Flatten(arg'), t)
            m == Len(Flatten(arg'))
        IN  (op' = "partial_fit" /\ k > 0) =>
                /\ (ret' = "self" =>
                        /\ CountOf(t)' = CountOf(t) + k
                        /\ TotalCount' = TotalCount + m)
                /\ (k * TotalCount >= CountOf(t) * m => C7_NotLower(t))]_vars
\* a token counted before is counted again in a batch that holds another
\* token too
C7_Witness ==
    /\ op = "partial_fit"
    /\ ret = "self"
    /\ \E t \in Strings :
        /\ Occurrences(Flatten(arg), t) = 1
        /\ CountOf(t) = 2
        /\ TotalCount = 3

\* ---- C8
\* the tokens that fewer than k items of the table precede, an item coming
\* before another when its count is higher, or equal and inserted earlier
C8_Precede(i) ==
    {j \in 1..Len(frequencies) :
        \/ frequencies[j].n > frequencies[i].n
        \/ (frequencies[j].n = frequencies[i].n /\ j < i)}
C8_TopK(k) ==
    {frequencies[i].tok :
        i \in {i \in 1..Len(frequencies) : Cardinality(C8_Precede(i)) < k}}
\* C8: with max_features = k, after every fitting call that returns the
\* most-common vocabulary holds at most k tokens and is exactly the k tokens
\* of highest cumulative count, the batch included, ties going to the token
\* inserted first; no token outside it passes or is returned by transform.
C8_MostCommonCap ==
    max_features.some =>
        /\ (op \in Fitting /\ ret = "self") =>
                /\ most_common.some
                /\ Cardinality(most_common.val) <= max_features.val
                /\ most_common.val = C8_TopK(max_features.val)
                /\ \A t \in Strings \ most_common.val : ~passes(t)
        /\ (op = "transform" /\ ret = "list" /\ most_common.some) =>
                \A i \in 1..Len(out) : \A n \in 1..Len(out[i]) :
                    out[i][n] \in most_common.val
\* two tokens of equal count, and the vocabulary keeps the first
C8_Witness ==
    /\ max_features = Some(1)
    /\ op \in Fitting
    /\ ret = "self"
    /\ Len(frequencies) >= 2
    /\ frequencies[1].n = frequencies[2].n
    /\ most_common.val = {frequencies[1].tok}

\* ---- C9
\* C9: a fit call from any state leaves the state, raises and returns what
\* partial_fit does from that state on the same batch with the same draws;
\* it keeps the counts and the reservoir entries it does not overwrite.
C9_FitIsPartialFit ==
    [][op' = "fit" =>
        /\ \E np \in NumpyEmpty :
            LET r == partial_fit(arg', draws', np)
            IN  /\ r.ok
                /\ length_pool' = r.length_pool
                /\ seen_lengths' = r.seen_lengths
                /\ min_length' = r.min_length
                /\ max_length' = r.max_length
                /\ frequencies' = r.frequencies
                /\ most_common' = r.most_common
                /\ raised' = r.raised
                /\ ret' = r.ret
        /\ seen_lengths' >= seen_lengths
        /\ ret' = "self" => seen_lengths' = seen_lengths + Len(Flatten(arg'))
        /\ Len(length_pool') >= Len(length_pool)
        /\ \A t \in Tokens : CountOf(t)' >= CountOf(t)
        /\ \A i \in 1..Len(length_pool) :
            (\A n \in 1..Len(draws') : draws'[n] # i - 1)
                => length_pool'[i] = length_pool[i]]_vars
\* a fit of a non-empty batch on a filter fitted before
C9_Witness ==
    /\ op = "fit"
    /\ ret = "self"
    /\ Flatten(arg) # <<>>
    /\ seen_lengths > Len(Flatten(arg))
    /\ TotalCount > Len(Flatten(arg))

\* ---- C10
\* C10: whenever a fit or partial_fit call raises, the reservoir, the seen
\* count, the frequency table, the resolved bounds and the most-common
\* vocabulary are as they were before the call.
C10_FailedFitChangesNothing ==
    [][(op' \in Fitting /\ raised' # "") => UNCHANGED learned]_vars

\* ---- C11
\* C11: when a bound of the length range is a quantile and a fitting call on
\* a batch of sized tokens ends with the reservoir empty, the call does not
\* raise, and the resolved bounds are the defaults: 0 for the lower one,
\* unbounded for the upper one.
C11_EmptyReservoirDefaults ==
    (/\ op \in Fitting
     /\ Tokenized(arg)
     /\ length_pool = <<>>
     /\ (min_length_quantile \/ max_length_quantile)) =>
        /\ raised = ""
        /\ min_length_quantile =>
                (min_length.kind \in {"int", "float"} /\ min_length.num = 0)
        /\ max_length_quantile => max_length = NoneValue

\* ---- C12
\* C12: a frequency range whose lower bound lies above its upper bound makes
\* the construction raise: no filter with such a range is ever in a state
\* where fit or transform can be called on it.
C12_InvertedFrequencyRangeRejected ==
    (frequency_range[1].num * frequency_range[2].den
        > frequency_range[2].num * frequency_range[1].den) =>
        /\ op = "__init__"
        /\ raised # ""
        /\ ~Callable

\* ---- C13
\* C13: TokenFilter(...) raises ValueError exactly when the lower length
\* bound is neither an int nor a float or the upper one is neither an int, a
\* float nor None, and then leaves no filter to call; otherwise it returns a
\* filter whose bound is the given integer where an integer was given, and
\* the default (0 below, unbounded above) where a quantile or None was given.
C13_LengthRangeTypes ==
    /\ raised = ValueError => (op = "__init__" /\ ret = "raise" /\ ~Callable)
    /\ op = "__init__" =>
        /\ raised \in {"", ValueError}
        /\ raised = ValueError <=>
                \/ minl.kind \notin {"int", "float"}
                \/ maxl.kind \notin {"int", "float", "None"}
        /\ raised = "" =>
                /\ Callable
                /\ min_length_quantile <=> minl.kind = "float"
                /\ minl.kind = "int" => min_length = minl
                /\ minl.kind = "float" => min_length = IntValue(0)
                /\ max_length_quantile <=> maxl.kind = "float"
                /\ maxl.kind = "int" => max_length = maxl
                /\ maxl.kind \in {"float", "None"} => max_length = NoneValue
\* an upper bound that is no number, next to a lower bound that is a quantile
C13_Witness ==
    /\ op = "__init__"
    /\ raised = ValueError
    /\ minl.kind = "float"
    /\ maxl.kind = "str"

\* ---- C14
\* tokens of pairwise different lengths: an entry of the reservoir tells
\* which of them it came from
Distinct == <<"a", "ab", "abc", "abcd", "abcde">>
\* the sequences of draws random.randint can return while the first n of
\* them are fed to an empty reservoir; randint draws uniformly and as many
\* times whatever it returned before, so they are equally likely
C14_Draws(n) == draw_seqs(<<>>, 0, SubSeq(Distinct, 1, n))
\* those that leave the i-th token in the reservoir
C14_Kept(n, i) ==
    {d \in C14_Draws(n) :
        LET pool == fit_loop(<<>>, 0, SubSeq(Distinct, 1, n), d,
                             <<>>).length_pool
        IN  \E k \in 1..Len(pool) : pool[k] = i}
\* C14: once more tokens were seen than the reservoir holds, each of the
\* seen_lengths tokens fed to an empty reservoir is in it with the same
\* probability max_memory / seen_lengths, wherever it stood in the stream:
\* of the equally likely sequences of draws, that share keeps it.
C14_ReservoirIsUniform ==
    (seen_lengths > max_memory /\ seen_lengths <= Len(Distinct)) =>
        \A i \in 1..seen_lengths :
            Cardinality(C14_Kept(seen_lengths, i)) * seen_lengths
                = max_memory * Cardinality(C14_Draws(seen_lengths))
\* two tokens more than the reservoir holds were seen, and the last call
\* drew an index that keeps its token out
C14_Witness ==
    /\ op \in Fitting
    /\ raised = ""
    /\ seen_lengths >= max_memory + 2
    /\ \E i \in 1..Len(draws) : draws[i] >= max_memory

\* ---- C15
\* one reservoir step as the claim words it, for a pool, the count n of the
\* tokens seen before, the length of the token and the index drawn
C15_Step(pool, n, length, j) ==
    IF n < max_memory THEN Append(pool, length)
    ELSE [k \in 1..Len(pool) |-> IF k = j + 1 THEN length ELSE pool[k]]
\* the steps of the tokens toks, the draws d being consumed by the tokens
\* that come when the reservoir is full
RECURSIVE C15_Steps(_, _, _, _)
C15_Steps(pool, n, toks, d) ==
    IF toks = <<>> THEN [pool |-> pool, n |-> n, drawn |-> d = <<>>]
    ELSE IF n < max_memory
    THEN C15_Steps(C15_Step(pool, n, Len(Head(toks)), 0), n + 1,
                   Tail(toks), d)
    ELSE IF d = <<>> \/ Head(d) \notin 0..n
    THEN [pool |-> pool, n |-> n, drawn |-> FALSE]
    ELSE C15_Steps(C15_Step(pool, n, Len(Head(toks)), Head(d)), n + 1,
                   Tail(toks), Tail(d))
\* C15: a fitting call on sized tokens performs one reservoir step a token,
\* in order: with n tokens seen before, the length is appended when
\* n < max_memory, else an index j is drawn from 0..n and slot j alone is
\* overwritten, and only when j < max_memory; n grows by one either way. So
\* while the seen count stays within max_memory the reservoir grows by the
\* lengths of the batch in arrival order, and every entry of the reservoir
\* is an entry it had or the length of a token of the batch.
C15_OneStepPerToken ==
    [][(op' \in Fitting /\ Tokenized(arg')) =>
        LET toks == Flatten(arg')
            r == C15_Steps(length_pool, seen_lengths, toks, draws')
        IN  /\ r.drawn
            /\ length_pool' = r.pool
            /\ seen_lengths' = r.n
            /\ seen_lengths' = seen_lengths + Len(toks)
            /\ seen_lengths' <= max_memory =>
                    length_pool' = length_pool
                        \o [k \in 1..Len(toks) |-> Len(toks[k])]
            /\ \A k \in 1..Len(length_pool') :
                    \/ \E i \in 1..Len(length_pool) :
                            length_pool'[k] = length_pool[i]
                    \/ \E i \in 1..Len(toks) :
                            length_pool'[k] = Len(toks[i])]_vars
\* a call of two tokens on a full reservoir: the first overwrites a slot, the
\* second draws an index past the reservoir and leaves it as it is
C15_Witness ==
    /\ op \in Fitting
    /\ raised = ""
    /\ Tokenized(arg)
    /\ Len(draws) = 2
    /\ draws[1] < max_memory
    /\ draws[2] >= max_memory
    /\ Len(Flatten(arg)) = 2
    /\ length_pool[draws[1] + 1] = Len(Flatten(arg)[1])
    /\ seen_lengths = max_memory + 2

\* ---- C16
\* the k-th smallest entry of a pool, k counted from 1
C16_Smallest(pool, k) ==
    CHOOSE v \in Range(pool) :
        /\ Cardinality({i \in 1..Len(pool) : pool[i] < v}) < k
        /\ k <= Cardinality({i \in 1..Len(pool) : pool[i] <= v})
\* b is the q-quantile of the pool, linearly interpolated between the two
\* entries around the position q * (n - 1) of the sorted pool
C16_IsQuantile(b, pool, q) ==
    LET n == Len(pool)
        lo == (q.num * (n - 1)) \div q.den
        g == (q.num * (n - 1)) % q.den
        x == C16_Smallest(pool, lo + 1)
        y == C16_Smallest(pool, Min(lo + 1, n - 1) + 1)
    IN  /\ b.kind = "float"
        /\ b.num * q.den = (x * (q.den - g) + y * g) * b.den
        /\ q.num = 0 =>
                \A i \in 1..n : b.num <= pool[i] * b.den
        /\ q.num = 0 => \E i \in 1..n : b.num = pool[i] * b.den
        /\ q.num = q.den =>
                \A i \in 1..n : b.num >= pool[i] * b.den
        /\ q.num = q.den => \E i \in 1..n : b.num = pool[i] * b.den
\* C16: after every fitting call that returns with a reservoir that is not
\* empty, a bound given as the quantile q is the linearly interpolated
\* q-quantile of the reservoir as the call leaves it: the minimum for
\* q = 0.0, the maximum for q = 1.0; this on every call, not the first only.
C16_QuantileBounds ==
    (op \in Fitting /\ ret = "self" /\ length_pool # <<>>) =>
        /\ max_length_quantile =>
                C16_IsQuantile(max_length, length_pool, maxl)
        /\ min_length_quantile =>
                C16_IsQuantile(min_length, length_pool, minl)
\* a later fitting call leaves the lengths 1 and 3 in the reservoir, and the
\* median bound is 2, between them
C16_Witness ==
    /\ op \in Fitting
    /\ ret = "self"
    /\ min_length_quantile
    /\ minl = Half
    /\ Range(length_pool) = {1, 3}
    /\ min_length.num = 2 * min_length.den
    /\ Flatten(arg) # <<>>
    /\ seen_lengths > Len(Flatten(arg))

\* ---- C17
\* C17: no fit, partial_fit or transform call changes a length bound that
\* was given as an integer, or an upper bound left unbounded: it stays the
\* value the constructor was given; and no step changes the deny-list, the
\* length range, the frequency range, max_features or max_memory.
C17_ConfigurationFrame ==
    [][/\ UNCHANGED <<negative, minl, maxl, frequency_range, max_features,
                      max_memory, min_length_quantile, max_length_quantile>>
       /\ minl.kind = "int" => (min_length' = min_length /\ min_length' = minl)
       /\ maxl.kind \in {"int", "None"} =>
            (max_length' = max_length /\ max_length' = maxl)]_vars
\* a fitting call has put a length other than the bound in the reservoir of
\* a filter whose upper bound is an integer
C17_Witness ==
    /\ op \in Fitting
    /\ ret = "self"
    /\ maxl.kind = "int"
    /\ max_length = maxl
    /\ length_pool # <<>>
    /\ \E i \in 1..Len(length_pool) : length_pool[i] # max_length.num

\* ---- C18
\* C18: the frequency table starts empty; a fitting call that returns adds to
\* the count of every token its number of occurrences in the batch, over all
\* the documents, and to the total the number of tokens of the batch; every
\* other step leaves the table as it is. So the count of a token is the
\* number of its occurrences in the batches fitted so far, and no count and
\* no total ever decreases.
C18_TableIsExact ==
    /\ frequencies = <<>>
    /\ [][/\ \A t \in Tokens : CountOf(t)' >= CountOf(t)
          /\ TotalCount' >= TotalCount
          /\ Cardinality({frequencies'[i].tok : i \in 1..Len(frequencies')})
                = Len(frequencies')
          /\ IF op' \in Fitting /\ ret' = "self"
             THEN /\ \A t \in Tokens :
                        CountOf(t)' = CountOf(t)
                                        + Occurrences(Flatten(arg'), t)
                  /\ TotalCount' = TotalCount + Len(Flatten(arg'))
             ELSE frequencies' = frequencies]_vars
\* a second batch of two documents that both hold a token counted before
C18_Witness ==
    /\ op \in Fitting
    /\ ret = "self"
    /\ Len(arg) = 2
    /\ \E t \in Strings :
        /\ arg[1] = <<t>>
        /\ arg[2] = <<t>>
        /\ CountOf(t) = 3

\* ---- C19
\* C19: in the state the constructor leaves and after every fitting call
\* that returns, the counts of the frequency table add up to seen_lengths.
C19_TotalIsSeenCount ==
    (op = "__init__" \/ (op \in Fitting /\ ret = "self")) =>
        TotalCount = seen_lengths

\* ---- C20
\* what the step after the tokenizer is to be fitted on: the argument, gone
\* through the tokenizer's transform, if it has one, after the tokenizer's
\* own fitting call
C20_Transformed(X) ==
    IF "transform" \in step_attrs[StepNames[1]]
    THEN [X EXCEPT !.via =
            <<[step |-> StepNames[1],
               fitted |-> fitted(invoked, StepNames[1]) + 1]>>]
    ELSE X
C20_IsFit(e) == e.method \in {"fit", "partial_fit"}
\* C20: the pipeline is frozen from freeze() or from_hub until unfreeze();
\* a fit or partial_fit call on a frozen pipeline returns the pipeline and
\* invokes nothing on any step; partial_fit on a pipeline that is not frozen
\* raises ValueError with nothing invoked when a step has no partial_fit,
\* and otherwise calls partial_fit on the tokenizer with the argument, then
\* on the embedding model with the argument as the updated tokenizer
\* transforms it, and returns the pipeline.
C20_FrozenSkipsFitting ==
    [][/\ frozen' = IF p_op' \in {"freeze", "from_hub"} THEN TRUE
                    ELSE IF p_op' = "unfreeze" THEN FALSE ELSE frozen
       /\ (p_op' \in {"fit", "partial_fit"} /\ frozen) =>
            /\ invoked' = invoked
            /\ p_raised' = ""
            /\ p_ret' = "self"
       /\ (p_op' = "partial_fit" /\ ~frozen) =>
            IF \E i \in 1..Len(StepNames) :
                    "partial_fit" \notin step_attrs[StepNames[i]]
            THEN /\ p_raised' = PipelineValueError
                 /\ invoked' = invoked
            ELSE LET fits == SelectSeq(SubSeq(invoked', Len(invoked) + 1,
                                              Len(invoked')), C20_IsFit)
                 IN  /\ p_raised' = ""
                     /\ p_ret' = "self"
                     /\ SubSeq(invoked', 1, Len(invoked)) = invoked
                     /\ Len(fits) = Len(StepNames)
                     /\ \A i \in 1..Len(fits) :
                            /\ fits[i].step = StepNames[i]
                            /\ fits[i].method = "partial_fit"
                     /\ fits[1].X = p_arg'
                     /\ fits[2].X = C20_Transformed(p_arg')]_vars
\* a pipeline whose two steps were fitted twice by partial_fit, the second
\* on what the tokenizer made of the data after its second update, is then
\* frozen and asked to fit
C20_Witness ==
    /\ frozen
    /\ p_op \in {"fit", "partial_fit"}
    /\ p_ret = "self"
    /\ Len(invoked) = 2 * 2 * Len(StepNames)
    /\ \E i \in 1..Len(invoked) :
        /\ invoked[i].step = StepNames[2]
        /\ invoked[i].method = "partial_fit"
        /\ invoked[i].X.via = <<[step |-> StepNames[1], fitted |-> 2]>>

====
